---- MODULE Spec2Model ----
(***************************************************************************)
(* Gate model of radical-pair formation (gate-model.ipynb).                *)
(*                                                                         *)
(* The notebook builds circuits over the gates H, X, Z, CNOT and SWAP on   *)
(* registers of 2 and 4 qubits that start in |0...0>, runs them on the     *)
(* statevector simulator and prints the final statevector.                 *)
(*                                                                         *)
(* Amplitudes.  Every amplitude a circuit over this gate set can produce   *)
(* is an integer divided by a power of sqrt(2).  A statevector is the      *)
(* record [amp, rt2]: the amplitude at basis index i is                    *)
(*     amp[i] / sqrt(2)^rt2 .                                              *)
(* The representation is kept canonical (Normalize), so that equality of   *)
(* records is equality of vectors.  Qubit 0 is the least significant bit   *)
(* of the basis index, as in the printed statevectors of the notebook.     *)
(***************************************************************************)
EXTENDS Integers, Sequences, FiniteSets, TLC

VARIABLES num_qubits, circuit, phase, applied, statevector, out_state

vars == <<num_qubits, circuit, phase, applied, statevector, out_state>>

(***************************************************************************)
(* Bounds of the exploration.                                              *)
(***************************************************************************)
\* freely built circuits have at most MaxGates gates
MaxGates == 3

(***************************************************************************)
(* Register sizes used by the notebook.                                    *)
(***************************************************************************)
SingletQubits == 2
PairQubits == 4

\* registers from the 2-qubit one to the 4-qubit one
QubitCounts == SingletQubits..PairQubits

(***************************************************************************)
(* Gate operations: a name and the qubit indices it acts on.               *)
(***************************************************************************)
H(q) == [name |-> "h", qubits |-> <<q>>]
X(q) == [name |-> "x", qubits |-> <<q>>]
Z(q) == [name |-> "z", qubits |-> <<q>>]
CNOT(c, t) == [name |-> "cnot", qubits |-> <<c, t>>]
SWAP(a, b) == [name |-> "swap", qubits |-> <<a, b>>]

\* the gates that can be appended to a circuit on n qubits; SWAP acts on an
\* unordered pair, written with the smaller index first as in qc.swap(1, 3)
Gates(n) ==
    {H(q) : q \in 0..(n - 1)} \cup {X(q) : q \in 0..(n - 1)}
        \cup {Z(q) : q \in 0..(n - 1)}
        \cup {CNOT(c, t) : <<c, t>> \in {p \in (0..(n - 1)) \X (0..(n - 1)) : p[1] # p[2]}}
        \cup {SWAP(a, b) : <<a, b>> \in {p \in (0..(n - 1)) \X (0..(n - 1)) : p[1] < p[2]}}

(***************************************************************************)
(* Basis-index bit manipulation.                                           *)
(***************************************************************************)
Pow2(n) == 2 ^ n

Dim(n) == Pow2(n)

\* little-endian: qubit q is bit q of the basis index
Bit(i, q) == (i \div Pow2(q)) % 2

Flip(i, q) == IF Bit(i, q) = 0 THEN i + Pow2(q) ELSE i - Pow2(q)

\* SwapBits built from CNOT(a,b), CNOT(b,a) only: a 3-cycle on the two bits
SwapBits_TwoCnot(i, a, b) ==
    IF Bit(i, a) = 1
    THEN (IF Bit(Flip(i, b), b) = 1 THEN Flip(Flip(i, b), a) ELSE Flip(i, b))
    ELSE (IF Bit(i, b) = 1 THEN Flip(i, a) ELSE i)

\* SwapBits moving bit a only
SwapBits_OneSided(i, a, b) == IF Bit(i, a) = Bit(i, b) THEN i ELSE Flip(i, a)

SwapBits(i, a, b) == IF Bit(i, a) = Bit(i, b) THEN i ELSE Flip(Flip(i, a), b)

(***************************************************************************)
(* Statevectors.                                                           *)
(***************************************************************************)
NoState == [amp |-> [i \in {} |-> 0], rt2 |-> 0]

\* |0...0>: amplitude 1 at index 0 and 0 elsewhere
ZeroState(n) == [amp |-> [i \in 0..(Dim(n) - 1) |-> IF i = 0 THEN 1 ELSE 0], rt2 |-> 0]

AllEven(amp) == \A i \in DOMAIN amp : amp[i] % 2 = 0

RECURSIVE Normalize(_)
Normalize(sv) ==
    IF sv.rt2 >= 2 /\ AllEven(sv.amp)
    THEN Normalize([amp |-> [i \in DOMAIN sv.amp |-> sv.amp[i] \div 2],
                    rt2 |-> sv.rt2 - 2])
    ELSE sv

(***************************************************************************)
(* Gate unitaries, applied by index-bit manipulation.                      *)
(***************************************************************************)
\* H without its 1/sqrt 2 factor
ApplyH_Unscaled(sv, q) ==
    [amp |-> [i \in DOMAIN sv.amp |->
                  IF Bit(i, q) = 0
                  THEN sv.amp[i] + sv.amp[Flip(i, q)]
                  ELSE sv.amp[Flip(i, q)] - sv.amp[i]],
     rt2 |-> sv.rt2]

\* H = (1/sqrt 2) [[1, 1], [1, -1]] on qubit q
ApplyH(sv, q) ==
    Normalize([amp |-> [i \in DOMAIN sv.amp |->
                            IF Bit(i, q) = 0
                            THEN sv.amp[i] + sv.amp[Flip(i, q)]
                            ELSE sv.amp[Flip(i, q)] - sv.amp[i]],
               rt2 |-> sv.rt2 + 1])

\* X = [[0, 1], [1, 0]] on qubit q
ApplyX(sv, q) ==
    [amp |-> [i \in DOMAIN sv.amp |-> sv.amp[Flip(i, q)]], rt2 |-> sv.rt2]

\* Z without the sign on |1>
ApplyZ_NoSign(sv, q) == [amp |-> [i \in DOMAIN sv.amp |-> sv.amp[i]], rt2 |-> sv.rt2]

\* Z = [[1, 0], [0, -1]] on qubit q
ApplyZ(sv, q) ==
    [amp |-> [i \in DOMAIN sv.amp |->
                  IF Bit(i, q) = 1 THEN 0 - sv.amp[i] ELSE sv.amp[i]],
     rt2 |-> sv.rt2]

\* CNOT with control and target exchanged
ApplyCNOT_Reversed(sv, c, t) ==
    [amp |-> [i \in DOMAIN sv.amp |->
                  IF Bit(i, t) = 1 THEN sv.amp[Flip(i, c)] ELSE sv.amp[i]],
     rt2 |-> sv.rt2]

\* CNOT acting where the control is 0
ApplyCNOT_ControlZero(sv, c, t) ==
    [amp |-> [i \in DOMAIN sv.amp |->
                  IF Bit(i, c) = 0 THEN sv.amp[Flip(i, t)] ELSE sv.amp[i]],
     rt2 |-> sv.rt2]

\* CNOT: X on the target where the control is 1
ApplyCNOT(sv, c, t) ==
    [amp |-> [i \in DOMAIN sv.amp |->
                  IF Bit(i, c) = 1 THEN sv.amp[Flip(i, t)] ELSE sv.amp[i]],
     rt2 |-> sv.rt2]

\* SWAP leaving the register as it is
ApplySWAP_Noop(sv, a, b) == [amp |-> [i \in DOMAIN sv.amp |-> sv.amp[i]], rt2 |-> sv.rt2]

\* SWAP: exchanges bit positions a and b of the basis index
ApplySWAP(sv, a, b) ==
    [amp |-> [i \in DOMAIN sv.amp |-> sv.amp[SwapBits(i, a, b)]], rt2 |-> sv.rt2]

ApplyGate(sv, g) ==
    CASE g.name = "h" -> ApplyH(sv, g.qubits[1])
      [] g.name = "x" -> ApplyX(sv, g.qubits[1])
      [] g.name = "z" -> ApplyZ(sv, g.qubits[1])
      [] g.name = "cnot" -> ApplyCNOT(sv, g.qubits[1], g.qubits[2])
      [] g.name = "swap" -> ApplySWAP(sv, g.qubits[1], g.qubits[2])

\* the statevector after the first k gates of c on n qubits
RECURSIVE SimulatePrefix(_, _, _)
SimulatePrefix(c, n, k) ==
    IF k = 0 THEN ZeroState(n)
    ELSE ApplyGate(SimulatePrefix(c, n, k - 1), c[k])

Simulate(c, n) == SimulatePrefix(c, n, Len(c))

(***************************************************************************)
(* The circuits of the notebook.                                           *)
(***************************************************************************)
\* the singlet construction on qubits (a, b): H, Z on a, X on b, CNOT(a, b)
SingletOn(a, b) == <<H(a), Z(a), X(b), CNOT(a, b)>>

\* cell 4
SingletCircuit == SingletOn(0, 1)

\* cell 7
PairsCircuit == SingletOn(0, 1) \o SingletOn(2, 3)

\* cell 7 followed by cell 9
SwapCircuit == Append(PairsCircuit, SWAP(1, 3))

\* cell 12
ExpectedCircuit == SingletOn(0, 3) \o SingletOn(2, 1)

IsPrefix(p, c) == Len(p) <= Len(c) /\ \A i \in 1..Len(p) : p[i] = c[i]

\* the circuits that prepare qubits a and b in a basis state with X gates
BasisPreps(a, b) == {<<>>, <<X(a)>>, <<X(b)>>, <<X(a), X(b)>>}

\* the circuits explored beyond the free bound: the notebook's, and the
\* singlet construction on any pair of qubits in any basis state
LongCircuits(n) ==
    {p \o SingletOn(a, b) : <<p, a, b>> \in
        UNION {BasisPreps(q[1], q[2]) \X {q[1]} \X {q[2]} :
                 q \in {r \in (0..(n - 1)) \X (0..(n - 1)) : r[1] # r[2]}}}
        \cup (IF n = PairQubits THEN {SwapCircuit, ExpectedCircuit} ELSE {})

\* the circuits explored: every circuit of at most MaxGates gates on the
\* registers below the 4-qubit one, and the prefixes of the long circuits
InWorkload(c, n) ==
    \/ n < PairQubits /\ Len(c) <= MaxGates
    \/ \E l \in LongCircuits(n) : IsPrefix(c, l)

(***************************************************************************)
(* The program.                                                            *)
(***************************************************************************)
\* qc = QuantumCircuit(n): an empty circuit on n qubits
Init ==
    /\ num_qubits \in QubitCounts
    /\ circuit = <<>>
    /\ phase = "build"
    /\ applied = 0
    /\ statevector = NoState
    /\ out_state = NoState

\* qc.h(q), qc.x(q), qc.z(q), qc.cnot(c, t), qc.swap(a, b)
AddGate(g) ==
    /\ phase = "build"
    /\ InWorkload(Append(circuit, g), num_qubits)
    /\ circuit' = Append(circuit, g)
    /\ UNCHANGED <<num_qubits, phase, applied, statevector, out_state>>

\* qc.save_statevector(); sim.run(assemble(qc)): the register starts in |0...0>
Run ==
    /\ phase = "build"
    /\ phase' = "sim"
    /\ applied' = 0
    /\ statevector' = ZeroState(num_qubits)
    /\ UNCHANGED <<num_qubits, circuit, out_state>>

\* a step that counts the next gate as applied without applying it
Step_SkipGate ==
    /\ phase = "sim"
    /\ applied < Len(circuit)
    /\ statevector' = statevector
    /\ applied' = applied + 1
    /\ UNCHANGED <<num_qubits, circuit, phase, out_state>>

\* the simulator applies the next gate of the circuit
Step ==
    /\ phase = "sim"
    /\ applied < Len(circuit)
    /\ statevector' = ApplyGate(statevector, circuit[applied + 1])
    /\ applied' = applied + 1
    /\ UNCHANGED <<num_qubits, circuit, phase, out_state>>

\* out_state = result.get_statevector()
Finish ==
    /\ phase = "sim"
    /\ applied = Len(circuit)
    /\ phase' = "done"
    /\ out_state' = statevector
    /\ UNCHANGED <<num_qubits, circuit, applied, statevector>>

Next ==
    \/ \E g \in Gates(num_qubits) : AddGate(g)
    \/ Run
    \/ Step
    \/ Finish

Spec == Init /\ [][Next]_vars

\* the simulation is a sequential run: each of its steps is eventually taken
FairSpec == Spec /\ WF_vars(Step) /\ WF_vars(Finish)

TypeOK ==
    /\ num_qubits \in QubitCounts
    /\ phase \in {"build", "sim", "done"}
    /\ applied \in 0..Len(circuit)
    /\ \A i \in 1..Len(circuit) : circuit[i] \in Gates(num_qubits)

(***************************************************************************)
(* Helpers of the properties.                                              *)
(***************************************************************************)
Running == phase \in {"sim", "done"}

Front(c) == SubSeq(c, 1, Len(c) - 1)

RECURSIVE SumSqBelow(_, _)
SumSqBelow(amp, n) ==
    IF n = 0 THEN 0 ELSE SumSqBelow(amp, n - 1) + amp[n - 1] * amp[n - 1]

\* the sum of squared magnitudes of sv is 1
UnitNorm(sv) == SumSqBelow(sv.amp, Cardinality(DOMAIN sv.amp)) = Pow2(sv.rt2)

\* (|0>_a |1>_b - |1>_a |0>_b) / sqrt 2 on an n-qubit register whose other
\* qubits are |0>: +1/sqrt 2 at the index of |0>_a |1>_b, -1/sqrt 2 at the
\* index of |1>_a |0>_b
SingletVector(n, a, b) ==
    [amp |-> [i \in 0..(Dim(n) - 1) |->
                  IF i = Pow2(b) THEN 1 ELSE IF i = Pow2(a) THEN 0 - 1 ELSE 0],
     rt2 |-> 1]

Negated(sv) == [amp |-> [i \in DOMAIN sv.amp |-> 0 - sv.amp[i]], rt2 |-> sv.rt2]

\* (|0>_a |1>_b - |1>_a |0>_b) (|0>_c |1>_d - |1>_c |0>_d) / 2 on 4 qubits
SingletPairVector(a, b, c, d) ==
    [amp |-> [i \in 0..(Dim(PairQubits) - 1) |->
                  IF i = Pow2(b) + Pow2(d) \/ i = Pow2(a) + Pow2(c) THEN 1
                  ELSE IF i = Pow2(b) + Pow2(c) \/ i = Pow2(a) + Pow2(d) THEN 0 - 1
                  ELSE 0],
     rt2 |-> 2]

\* the qubit index q with a and b exchanged
Exchange(q, a, b) == IF q = a THEN b ELSE IF q = b THEN a ELSE q

\* the circuit c with every index a replaced by b and every b by a
Relabel(c, a, b) ==
    [k \in 1..Len(c) |->
        [name |-> c[k].name,
         qubits |-> [j \in 1..Len(c[k].qubits) |-> Exchange(c[k].qubits[j], a, b)]]]

QubitPairs == {p \in (0..(num_qubits - 1)) \X (0..(num_qubits - 1)) : p[1] # p[2]}

(***************************************************************************)
(* C1.  Core equivalence: the two singlet pairs on (0,1) and (2,3)         *)
(* followed by SWAP(1,3) give, at every one of the 16 indices, the same    *)
(* final amplitudes as the directly built circuit with CNOT(0,3) and       *)
(* CNOT(2,1) and no SWAP.                                                  *)
(***************************************************************************)
C1_CoreEquivalence ==
    /\ (phase = "done" /\ num_qubits = PairQubits /\ circuit = SwapCircuit)
          => \A i \in 0..15 :
                /\ out_state.amp[i] = Simulate(ExpectedCircuit, PairQubits).amp[i]
                /\ out_state.rt2 = Simulate(ExpectedCircuit, PairQubits).rt2
    /\ (phase = "done" /\ num_qubits = PairQubits /\ circuit = ExpectedCircuit)
          => out_state = Simulate(SwapCircuit, PairQubits)

C1_Witness == phase = "done" /\ num_qubits = PairQubits /\ circuit = SwapCircuit

(***************************************************************************)
(* C2.  The circuit H(0), Z(0), X(1), CNOT(0,1) on 2 qubits from |00>      *)
(* yields [0, -1/sqrt 2, 1/sqrt 2, 0] in index order 0..3.                 *)
(***************************************************************************)
C2_SingletVector ==
    (phase = "done" /\ num_qubits = SingletQubits /\ circuit = SingletCircuit)
        => /\ out_state.rt2 = 1
           /\ out_state.amp = [i \in 0..3 |-> CASE i = 0 -> 0
                                                [] i = 1 -> 0 - 1
                                                [] i = 2 -> 1
                                                [] i = 3 -> 0]

C2_Witness == phase = "done" /\ num_qubits = SingletQubits /\ circuit = SingletCircuit

(***************************************************************************)
(* C3.  As stated: whatever computational-basis state the two qubits a, b  *)
(* start in, H(a), Z(a), X(b), CNOT(a,b) yields (|01> - |10>)/sqrt 2 up to *)
(* global phase.                                                           *)
(***************************************************************************)
C3_AnyBasisStart ==
    \A q \in QubitPairs : \A p \in BasisPreps(q[1], q[2]) :
        (phase = "done" /\ circuit = p \o SingletOn(q[1], q[2]))
            => \/ out_state = SingletVector(num_qubits, q[1], q[2])
               \/ out_state = Negated(SingletVector(num_qubits, q[1], q[2]))

(***************************************************************************)
(* C3 amended.  With both qubits a, b starting in |0>, H(a), Z(a), X(b),   *)
(* CNOT(a,b) yields (|01> - |10>)/sqrt 2: amplitude 1/sqrt 2 at the index  *)
(* of |0>_a |1>_b, -1/sqrt 2 at the index of |1>_a |0>_b, 0 elsewhere.     *)
(***************************************************************************)
C3_ZeroStart ==
    \A q \in QubitPairs :
        (phase = "done" /\ circuit = SingletOn(q[1], q[2]))
            => /\ out_state.rt2 = 1
               /\ out_state.amp[Pow2(q[2])] = 1
               /\ out_state.amp[Pow2(q[1])] = 0 - out_state.amp[Pow2(q[2])]
               /\ \A i \in DOMAIN out_state.amp :
                      i \notin {Pow2(q[1]), Pow2(q[2])} => out_state.amp[i] = 0

C3_Witness == phase = "done" /\ num_qubits = 3 /\ circuit = SingletOn(2, 0)

(***************************************************************************)
(* C4.  Norm preservation: in the initial |0...0> state and after every    *)
(* applied gate the squared magnitudes of the amplitudes sum to 1.         *)
(***************************************************************************)
C4_NormPreserved ==
    /\ Running => UnitNorm(statevector)
    /\ phase = "done" => UnitNorm(out_state)

C4_Witness ==
    /\ phase = "sim"
    /\ applied = 3
    /\ statevector.rt2 = 2
    /\ circuit[3].name = "cnot"

(***************************************************************************)
(* C5.  SWAP is an involution: applying SWAP(a,b) twice to any reachable   *)
(* statevector gives the statevector back.                                 *)
(***************************************************************************)
C5_SwapInvolution ==
    /\ Running =>
          \A q \in QubitPairs :
              ApplySWAP(ApplySWAP(statevector, q[1], q[2]), q[1], q[2]) = statevector
    /\ (Running /\ applied >= 2 /\ circuit[applied].name = "swap"
            /\ circuit[applied - 1] = circuit[applied])
          => statevector = SimulatePrefix(circuit, num_qubits, applied - 2)

C5_Witness ==
    /\ Running
    /\ applied >= 3
    /\ circuit[applied].name = "swap"
    /\ circuit[applied - 1] = circuit[applied]
    /\ SimulatePrefix(circuit, num_qubits, applied - 1) # statevector

(***************************************************************************)
(* C8.  After the eight preparation gates the 4-qubit state is the product *)
(* of singlets on (0,1) and (2,3); after SWAP(1,3) it is the product of    *)
(* singlets on (0,3) and (2,1): -1/2 at indices 3 and 12, +1/2 at 5 and    *)
(* 10, 0 at the other twelve.                                              *)
(***************************************************************************)
C8_SingletPairs ==
    (Running /\ num_qubits = PairQubits /\ circuit = SwapCircuit) =>
        /\ applied = 8 => statevector = SingletPairVector(0, 1, 2, 3)
        /\ applied = 9 =>
              /\ statevector = SingletPairVector(0, 3, 2, 1)
              /\ statevector.rt2 = 2
              /\ \A i \in 0..15 :
                    statevector.amp[i] =
                        IF i \in {3, 12} THEN 0 - 1
                        ELSE IF i \in {5, 10} THEN 1 ELSE 0

C8_Witness ==
    /\ phase = "done"
    /\ num_qubits = PairQubits
    /\ circuit = SwapCircuit
    /\ applied = 9

(***************************************************************************)
(* C9.  simulate is a single forward pass that terminates: it starts from  *)
(* |0...0>, applies the gates one at a time in circuit order, each exactly *)
(* once, reaches "all gates applied" after exactly Len(circuit)            *)
(* applications and returns the statevector of that moment, without        *)
(* modifying the circuit.                                                  *)
(***************************************************************************)
C9_StartsAtZero ==
    (phase = "sim" /\ applied = 0) => statevector = ZeroState(num_qubits)

C9_OneGateInOrder ==
    phase = "sim" =>
        /\ circuit' = circuit
        /\ num_qubits' = num_qubits
        /\ \/ /\ applied < Len(circuit)
              /\ applied' = applied + 1
              /\ statevector' = ApplyGate(statevector, circuit[applied + 1])
              /\ phase' = "sim"
           \/ /\ applied = Len(circuit)
              /\ applied' = applied
              /\ phase' = "done"
              /\ statevector' = statevector
              /\ out_state' = statevector

C10_SwapRelabels ==
    (phase = "done" /\ Len(circuit) >= 1 /\ circuit[Len(circuit)].name = "swap")
        => out_state =
              Simulate(Relabel(Front(circuit),
                               circuit[Len(circuit)].qubits[1],
                               circuit[Len(circuit)].qubits[2]),
                       num_qubits)

C10_Witness ==
    /\ phase = "done"
    /\ Len(circuit) >= 3
    /\ circuit[Len(circuit)].name = "swap"
    /\ out_state # Simulate(Front(circuit), num_qubits)
    /\ Relabel(Front(circuit), circuit[Len(circuit)].qubits[1],
               circuit[Len(circuit)].qubits[2]) # Front(circuit)

====
